---- MODULE Spec2Model ----
(***************************************************************************)
(* The CarbonClickhouse test fixture: one instance of the struct, the      *)
(* scratch area of the filesystem it writes to, and the calls a test       *)
(* harness makes on it (Start, Stop, Delete, Cleanup).  The container      *)
(* runtime, the port allocator, the template engine and the filesystem     *)
(* calls are the environment: every call of them draws its outcome from    *)
(* the outcomes that call can have.  A second specification, SpecHTTP, is   *)
(* the prometheus Handler serving its pages.                               *)
(***************************************************************************)
EXTENDS Integers, Sequences, FiniteSets, TLC

VARIABLES
    c,          \* the CarbonClickhouse struct
    fs,         \* scratch area: path of every existing directory -> its files
    rmCount,    \* history: every directory TempDir created -> os.RemoveAll calls on it
    started,    \* history: Start has been called on the instance
    created,    \* history: "never", or what the runtime last did: "launched", "removed"
    lastEvent,  \* history: the last event that changed the container: "set", "deleted"
    lastCall,   \* history: the last call, what it returned and what it invoked
    served      \* the requests the prometheus Handler served, in order

vars == <<c, fs, rmCount, started, created, lastEvent, lastCall, served>>

----------------------------------------------------------------------------
(* Bounds of the model *)

\* directories ioutil.TempDir can create in one behaviour
MaxDirs == 2

\* requests the prometheus Handler serves in one behaviour
MaxRequests == 2

----------------------------------------------------------------------------
(* Values *)

nil == "nil"

CchContainerName == "carbon-clickhouse-gch-test"

Versions == {"", "1.2.3"}
\* the optional fields of the configuration: all left unset, or all set
Options == { [Docker |-> "", DockerImage |-> "", TZ |-> ""],
             [Docker |-> "podman", DockerImage |-> "my/carbon-clickhouse",
              TZ |-> "Europe/Moscow"] }
TemplateName == "carbon-clickhouse.conf.tpl"

TestDirs == {"tests"}
ClickhouseURLs == {"http://clickhouse:8123"}
ClickhouseContainers == {"clickhouse-server-gch-test"}

\* the zero value of the struct, with the fields the configuration file sets
CarbonClickhouse(version, docker, image, tz) ==
    [Version |-> version, Docker |-> docker, DockerImage |-> image,
     Template |-> TemplateName, TZ |-> tz,
     address |-> "", container |-> "", storeDir |-> ""]

----------------------------------------------------------------------------
(* The environment *)

\* getFreeTCPPort(""): a free local address and no error, or no address and
\* the error; two calls can return different addresses
FreeAddrs == {"127.0.0.1:40001", "127.0.0.1:40002"}
getFreeTCPPort ==
    [addr : FreeAddrs, err : {nil}] \cup {[addr |-> "", err |-> "listen error"]}

\* ioutil.TempDir("", "carbon-clickhouse"): a directory that did not exist
\* before, named by a suffix no earlier call used; "" with the error
TempDirName(n) == "/tmp/carbon-clickhouse" \o ToString(n)
TempDir(count, ok) ==
    IF ok THEN [dir |-> TempDirName(count + 1), err |-> nil]
          ELSE [dir |-> "", err |-> "mkdir error"]

\* cmd.CombinedOutput(): the subprocess exited zero, or it did not, and what
\* it wrote to its standard output and standard error
CombinedOutput ==
    { [err |-> nil, out |-> "ok output"],
      [err |-> "exit status 1", out |-> "error output"] }

\* a rendering whose parameters leave the address out
ConfigFileNoAddr(url, addr, rendered) ==
    [name |-> "carbon-clickhouse.conf", rendered |-> rendered,
     CLICKHOUSE_URL |-> IF rendered THEN url ELSE "",
     CCH_ADDR |-> ""]

\* the rendered configuration file: the parameters the template was given
ConfigFile(url, addr, rendered) ==
    [name |-> "carbon-clickhouse.conf", rendered |-> rendered,
     CLICKHOUSE_URL |-> IF rendered THEN url ELSE "",
     CCH_ADDR |-> IF rendered THEN addr ELSE ""]

\* the scratch area with no directory in it
EmptyFS == [d \in {} |-> <<>>]

\* a directory that was just created, holding no file
MkDir(fsys, dir) ==
    [d \in (DOMAIN fsys) \cup {dir} |-> IF d = dir THEN <<>> ELSE fsys[d]]

\* os.OpenFile(configFile, O_WRONLY|O_CREATE) and what ExecuteTemplate writes
WriteFile(fsys, dir, file) ==
    [fsys EXCEPT ![dir] = <<file>>]

\* os.RemoveAll(dir): the directory and its files are gone, or the error
\* (which no caller looks at) with the directory left in place
RemoveAll(fsys, dir, ok) ==
    IF ok THEN [d \in (DOMAIN fsys) \ {dir} |-> fsys[d]] ELSE fsys

----------------------------------------------------------------------------
(* The record of one call *)

Call(op, arg) ==
    [op |-> op, arg |-> arg, err |-> nil, out |-> "",
     cmds |-> <<>>,      \* subprocess invocations, in order
     ports |-> <<>>,     \* addresses getFreeTCPPort returned, in order
     mkdir |-> "",       \* the directory TempDir created
     cleanups |-> 0,     \* calls of Cleanup
     removed |-> <<>>,   \* os.RemoveAll calls, in order: [dir, ok]
     assigned |-> "",    \* "set": Start assigned c.container; "deleted": rm succeeded
     runtime |-> ""]     \* "launched": run succeeded; "removed": rm succeeded

\* the state a call works on: the struct, the scratch area, the call's record
Enter(op, arg) == [c |-> c, fs |-> fs, log |-> Call(op, arg)]

\* the history of removals after a call
Counted(log) ==
    LET dirs == (DOMAIN rmCount) \cup (IF log.mkdir = "" THEN {} ELSE {log.mkdir})
        n(d) == Cardinality({i \in 1..Len(log.removed) : log.removed[i].dir = d})
    IN  [d \in dirs |-> (IF d \in DOMAIN rmCount THEN rmCount[d] ELSE 0) + n(d)]

\* the call returns (err, out): its effects become the state
Return(st, err, out) ==
    /\ c' = st.c
    /\ fs' = st.fs
    /\ lastCall' = [st.log EXCEPT !.err = err, !.out = out]
    /\ rmCount' = Counted(st.log)
    /\ started' = (started \/ st.log.op = "Start")
    /\ created' = IF st.log.runtime = "" THEN created ELSE st.log.runtime
    /\ lastEvent' = IF st.log.assigned = "" THEN lastEvent ELSE st.log.assigned
    /\ UNCHANGED served

\* exec.Command(name, args...) and what its CombinedOutput() returned
Command(name, args, run) == [argv |-> <<name>> \o args, err |-> run.err, out |-> run.out]

----------------------------------------------------------------------------
(* Cleanup *)

\* Cleanup that forgets the directory without removing it
CleanupForgets(st, rmOK) ==
    [c   |-> [st.c EXCEPT !.storeDir = ""],
     fs  |-> st.fs,
     log |-> [st.log EXCEPT !.cleanups = @ + 1]]

\* Cleanup that removes the directory and keeps its path
CleanupKeepsPath(st, rmOK) ==
    LET log1 == [st.log EXCEPT !.cleanups = @ + 1] IN
    IF st.c.storeDir # ""
    THEN [c   |-> st.c,
          fs  |-> RemoveAll(st.fs, st.c.storeDir, rmOK),
          log |-> [log1 EXCEPT !.removed =
                                 Append(@, [dir |-> st.c.storeDir, ok |-> rmOK])]]
    ELSE [c |-> st.c, fs |-> st.fs, log |-> log1]

\* Cleanup that also forgets the container
CleanupClearsContainer(st, rmOK) ==
    LET log1 == [st.log EXCEPT !.cleanups = @ + 1] IN
    IF st.c.storeDir # ""
    THEN [c   |-> [st.c EXCEPT !.storeDir = "", !.container = ""],
          fs  |-> RemoveAll(st.fs, st.c.storeDir, rmOK),
          log |-> [log1 EXCEPT !.removed =
                                 Append(@, [dir |-> st.c.storeDir, ok |-> rmOK])]]
    ELSE [c |-> st.c, fs |-> st.fs, log |-> log1]

\* func (c *CarbonClickhouse) Cleanup()
CleanupOf(st, rmOK) ==
    LET log1 == [st.log EXCEPT !.cleanups = @ + 1] IN
    IF st.c.storeDir # ""
    THEN [c   |-> [st.c EXCEPT !.storeDir = ""],
          fs  |-> RemoveAll(st.fs, st.c.storeDir, rmOK),
          log |-> [log1 EXCEPT !.removed =
                                 Append(@, [dir |-> st.c.storeDir, ok |-> rmOK])]]
    ELSE [c |-> st.c, fs |-> st.fs, log |-> log1]

Cleanup ==
    \E rmOK \in BOOLEAN :
        Return(CleanupOf(Enter("Cleanup", FALSE), rmOK), nil, "")

----------------------------------------------------------------------------
(* Start *)

DefaultDocker(docker) == IF Len(docker) = 0 THEN "docker" ELSE docker

\* the image assigned whether or not the caller set one
ImageAlwaysDefault(image) == "lomik/carbon-clickhouse"

DefaultImage(image) == IF Len(image) = 0 THEN "lomik/carbon-clickhouse" ELSE image

\* the arguments of the launch
cchStart(cc, clickhouseContainer) ==
    <<"run", "-d",
      "--name", cc.container,
      "-p", cc.address \o ":2003",
      "-v", cc.storeDir \o ":/etc/carbon-clickhouse",
      "--link", clickhouseContainer>>
    \o (IF cc.TZ # "" THEN <<"-e", "TZ=" \o cc.TZ>> ELSE <<>>)
    \o <<cc.DockerImage \o ":" \o cc.Version>>

\* a failure path that returns without calling Cleanup
FailNoClean(st, err) == Return(st, err, "")

\* a failure after the scratch directory was created and before the launch
FailClean(st, err) ==
    \E rmOK \in BOOLEAN : Return(CleanupOf(st, rmOK), err, "")

\* template.New(name).ParseFiles(tpl): the file is missing, or does not parse
ParseFiles == {nil, "open: no such file or directory", "template: unexpected token"}
OpenFile == {nil, "open: permission denied"}
ExecuteTemplate == {nil, "template: can't evaluate field"}

\* the validation left out
VersionUnchecked(version) == FALSE

\* if len(c.Version) == 0
VersionNotSet(version) == Len(version) = 0

\* the second allocation assigned to a shadowed variable, not to c.address
ReserveFirstOnly(st, p) ==
    [st EXCEPT !.c.address = IF Len(st.log.ports) = 0 THEN p.addr ELSE @,
               !.log.ports = Append(@, p.addr)]

\* c.address, err = getFreeTCPPort("")
Reserve(st, p) ==
    [st EXCEPT !.c.address = p.addr, !.log.ports = Append(@, p.addr)]

\* the pure accessors
Address == c.address
Container == c.container

\* c.container = CchContainerName
SetContainer(st) ==
    [st EXCEPT !.c.container = CchContainerName, !.log.assigned = "set"]

\* a launch whose failure is cleaned up like the failures before it
LaunchedCleans(st, run) ==
    IF run.err # nil THEN FailClean(st, run.err) ELSE Return(st, run.err, run.out)

\* a launch that is run a second time when it fails
LaunchedRetries(st, run) ==
    IF run.err # nil
    THEN Return([st EXCEPT !.log.cmds = Append(@, @[Len(@)])], run.err, run.out)
    ELSE Return(st, run.err, run.out)

\* out, err := cmd.CombinedOutput(); return err, string(out)
Launched(st, run) == Return(st, run.err, run.out)

Start(testDir, clickhouseURL, clickhouseContainer) ==
    LET st0 == Enter("Start", FALSE) IN
    IF VersionNotSet(c.Version) THEN Return(st0, "version not set", "") ELSE
    LET st1 == [st0 EXCEPT !.c.Docker = DefaultDocker(@),
                           !.c.DockerImage = DefaultImage(@)] IN
    \E p1 \in getFreeTCPPort :
    LET st2 == Reserve(st1, p1) IN
    IF p1.err # nil THEN Return(st2, p1.err, "") ELSE
    LET st3 == SetContainer(st2) IN
    \E tdOK \in {ok \in BOOLEAN : ok => Cardinality(DOMAIN rmCount) < MaxDirs} :
    LET td == TempDir(Cardinality(DOMAIN rmCount), tdOK)
        st4 == [st3 EXCEPT !.c.storeDir = td.dir,
                           !.fs = IF td.err = nil THEN MkDir(@, td.dir) ELSE @,
                           !.log.mkdir = td.dir] IN
    IF td.err # nil THEN Return(st4, td.err, "") ELSE
    \E p2 \in getFreeTCPPort :
    LET st5 == Reserve(st4, p2) IN
    IF p2.err # nil THEN FailClean(st5, p2.err) ELSE
    \E parse \in ParseFiles :
    IF parse # nil THEN FailClean(st5, parse) ELSE
    \E open \in OpenFile :
    IF open # nil THEN FailClean(st5, open) ELSE
    \E exec \in ExecuteTemplate :
    LET file == ConfigFile(clickhouseURL, st5.c.address, exec = nil)
        st6 == [st5 EXCEPT !.fs = WriteFile(@, st5.c.storeDir, file)] IN
    IF exec # nil THEN FailClean(st6, exec) ELSE
    \E run \in CombinedOutput :
    LET cmd == Command(st6.c.Docker, cchStart(st6.c, clickhouseContainer), run)
        st7 == [st6 EXCEPT !.log.cmds = Append(@, cmd),
                           !.log.runtime = IF run.err = nil THEN "launched" ELSE @] IN
    Launched(st7, run)

----------------------------------------------------------------------------
(* Delete and Stop *)

\* the container name kept after a successful rm
ContainerKept(container, err) == container

\* the container name cleared whatever rm returned
ContainerCleared(container, err) == ""

\* if err == nil { c.container = "" }
ContainerAfterRm(container, err) == IF err = nil THEN "" ELSE container

\* the body of Delete, entered from a caller's Delete() or from Stop
DeleteOf(st) ==
    IF Len(st.c.container) = 0 THEN Return(st, nil, "") ELSE
    \E run \in CombinedOutput :
    LET cmd == Command(st.c.Docker, <<"rm", st.c.container>>, run)
        st1 == [st EXCEPT !.log.cmds = Append(@, cmd),
                          !.log.runtime = IF run.err = nil THEN "removed" ELSE @,
                          !.log.assigned = IF run.err = nil THEN "deleted" ELSE @,
                          !.c.container = ContainerAfterRm(@, run.err)] IN
    \E rmOK \in BOOLEAN : Return(CleanupOf(st1, rmOK), run.err, run.out)

Delete == DeleteOf(Enter("Delete", FALSE))

\* the chained Delete not gated by the stop's error
ChainsAlways(err, delete) == delete

\* the chained Delete not gated by the flag
ChainsOnSuccess(err, delete) == err = nil

\* if err == nil && delete
ChainsDelete(err, delete) == err = nil /\ delete

Stop(delete) ==
    LET st0 == Enter("Stop", delete) IN
    IF Len(c.container) = 0 THEN Return(st0, nil, "") ELSE
    \E run \in CombinedOutput :
    LET cmd == Command(c.Docker, <<"stop", c.container>>, run)
        st1 == [st0 EXCEPT !.log.cmds = Append(@, cmd)] IN
    IF ChainsDelete(run.err, delete) THEN DeleteOf(st1) ELSE Return(st1, run.err, run.out)

----------------------------------------------------------------------------
(* The caller *)

\* the test harness sets the exported field between calls
SetVersion(v) ==
    /\ v # c.Version
    /\ Return([Enter("SetVersion", FALSE) EXCEPT !.c.Version = v], nil, "")

\* the test harness reads the accessors; the call returns the tracked value
CallAddress == Return(Enter("Address", FALSE), nil, Address)

CallContainer == Return(Enter("Container", FALSE), nil, Container)

----------------------------------------------------------------------------

Init ==
    /\ c \in {CarbonClickhouse(v, o.Docker, o.DockerImage, o.TZ) :
                v \in Versions, o \in Options}
    /\ fs = EmptyFS
    /\ rmCount = EmptyFS
    /\ started = FALSE
    /\ created = "never"
    /\ lastEvent = "none"
    /\ lastCall = Call("new", FALSE)
    /\ served = <<>>

Next ==
    \/ \E t \in TestDirs, u \in ClickhouseURLs, k \in ClickhouseContainers : Start(t, u, k)
    \/ \E delete \in BOOLEAN : Stop(delete)
    \/ Delete
    \/ Cleanup
    \/ CallAddress
    \/ CallContainer
    \/ \E v \in Versions : SetVersion(v)

Spec == Init /\ [][Next]_vars

----------------------------------------------------------------------------
(* The prometheus Handler *)

\* ui.Assets.Open and ioutil.ReadAll of one file under /templates: its
\* content, or the error of the one or of the other
Asset(name) ==
    { [text |-> "<" \o name \o ">", err |-> nil],
      [text |-> "", err |-> "open /templates/" \o name \o ": file does not exist"],
      [text |-> "", err |-> "read /templates/" \o name \o ": input/output error"] }

\* tmpl.ExpandHTML(nil): the page, or the error of parsing or executing the text
ExpandHTML(text) ==
    { [result |-> "html(" \o text \o ")", err |-> nil],
      [result |-> "", err |-> "error executing template"] }

\* a ResponseWriter nothing was written to, and the record of the request
Request(path) ==
    [path |-> path,
     status |-> 0,        \* the status line sent: the first WriteHeader
     body |-> <<>>,       \* what was written to the body, in order
     writes |-> <<>>,     \* the calls that wrote to w, in order
     readErr |-> nil,     \* what getTemplate returned
     expanded |-> FALSE,  \* ExpandHTML was called
     expandErr |-> nil]   \* what ExpandHTML returned

\* http.Error(w, msg, code): WriteHeader(code), which sets the status only if
\* none was sent, then the message written to the body
HttpError(r, msg, code) ==
    [r EXCEPT !.status = IF @ = 0 THEN code ELSE @,
              !.body = Append(@, msg),
              !.writes = Append(@, "http.Error")]

\* io.WriteString(w, s): the status is 200 if none was sent
WriteString(r, str) ==
    [r EXCEPT !.status = IF @ = 0 THEN 200 ELSE @,
              !.body = Append(@, str),
              !.writes = Append(@, "io.WriteString")]

\* http.Redirect(w, r, url, http.StatusFound)
Redirect(r, url) ==
    [r EXCEPT !.status = IF @ = 0 THEN 302 ELSE @,
              !.body = Append(@, "<a href=\"" \o url \o "\">Found</a>"),
              !.writes = Append(@, "http.Redirect")]

\* func (h *Handler) getTemplate(name string) (string, error)
getTemplate(name, base, page) ==
    IF base.err # nil
    THEN [text |-> "", err |-> "error reading base template: " \o base.err]
    ELSE IF page.err # nil
    THEN [text |-> "",
          err |-> "error reading page template " \o name \o ": " \o page.err]
    ELSE [text |-> base.text \o page.text, err |-> nil]

\* func (h *Handler) executeTemplate(w, name, data): the request when it returns
executeTemplate(r, name, base, page, exp) ==
    LET got == getTemplate(name, base, page)
        r1 == [r EXCEPT !.readErr = got.err]
        r2 == IF got.err # nil THEN HttpError(r1, got.err, 500) ELSE r1
        r3 == [r2 EXCEPT !.expanded = TRUE, !.expandErr = exp.err]
    IN  IF exp.err # nil THEN HttpError(r3, exp.err, 500)
                         ELSE WriteString(r3, exp.result)

\* the paths of the requests: the page, and one that ServeHTTP redirects to it
Paths == {"/graph", "/"}

\* func (h *Handler) ServeHTTP(w, r), for the paths it serves itself
ServeHTTP(path) ==
    /\ Len(served) < MaxRequests
    /\ IF path = "/graph"
       THEN \E base \in Asset("_base.html"), page \in Asset("graph.html") :
            \E exp \in ExpandHTML(getTemplate("graph.html", base, page).text) :
                served' = Append(served,
                    executeTemplate(Request(path), "graph.html", base, page, exp))
       ELSE served' = Append(served, Redirect(Request(path), "/graph"))
    /\ UNCHANGED <<c, fs, rmCount, started, created, lastEvent, lastCall>>

InitHTTP ==
    /\ c = CarbonClickhouse("", "", "", "")
    /\ fs = EmptyFS
    /\ rmCount = EmptyFS
    /\ started = FALSE
    /\ created = "never"
    /\ lastEvent = "none"
    /\ lastCall = Call("new", FALSE)
    /\ served = <<>>

NextHTTP == \E path \in Paths : ServeHTTP(path)

SpecHTTP == InitHTTP /\ [][NextHTTP]_vars

----------------------------------------------------------------------------
(* Properties *)

\* the errors of the template steps of Start
TemplateErrors == (ParseFiles \cup OpenFile \cup ExecuteTemplate) \ {nil}

\* C1: when Start has never been called, or the last event that changed the
\* container was a successful Delete, a Stop (with either flag) or a Delete
\* returns (nil, "") and invokes no subprocess.
C1_NoopWithoutContainer ==
    [][ ((~started \/ lastEvent = "deleted") /\ lastCall'.op \in {"Stop", "Delete"})
            => /\ lastCall'.err = nil
               /\ lastCall'.out = ""
               /\ lastCall'.cmds = <<>> ]_vars

\* a Stop or Delete that was a no-op after a successful Delete
C1_Witness ==
    /\ lastCall.op \in {"Stop", "Delete"}
    /\ lastCall.cmds = <<>>
    /\ started
    /\ lastEvent = "deleted"

\* C2: when Start returns a nil error, Address() is the non-empty address the
\* (second) port allocation returned and Container() is the fixed name.
C2_AddressAndContainerAfterStart ==
    (lastCall.op = "Start" /\ lastCall.err = nil)
        => /\ Address # ""
           /\ Len(lastCall.ports) = 2
           /\ Address = lastCall.ports[2]
           /\ Container = CchContainerName

\* a successful Start whose two allocations returned different addresses
C2_Witness ==
    /\ lastCall.op = "Start"
    /\ lastCall.err = nil
    /\ Len(lastCall.ports) = 2
    /\ lastCall.ports[1] # lastCall.ports[2]

\* C3 as stated: after a Delete whose rm succeeded, Container() is empty, no
\* scratch directory is tracked and the directory Delete cleaned up no longer
\* exists.
C3_Original ==
    (lastCall.op = "Delete" /\ lastCall.runtime = "removed")
        => /\ Container = ""
           /\ c.storeDir = ""
           /\ \A i \in 1..Len(lastCall.removed) :
                  lastCall.removed[i].dir \notin DOMAIN fs

\* C3 as amended: after a Delete whose rm succeeded, Container() is empty and
\* no scratch directory is tracked; the directory that was tracked when Delete
\* was called was handed to os.RemoveAll once, and it no longer exists unless
\* that removal failed (the failure is discarded and the directory stays).
C3_AfterSuccessfulDelete ==
    [][ (lastCall'.op = "Delete" /\ lastCall'.runtime = "removed")
            => /\ c'.container = ""
               /\ c'.storeDir = ""
               /\ lastCall'.cleanups = 1
               /\ IF c.storeDir = ""
                  THEN lastCall'.removed = <<>> /\ fs' = fs
                  ELSE /\ Len(lastCall'.removed) = 1
                       /\ lastCall'.removed[1].dir = c.storeDir
                       /\ IF lastCall'.removed[1].ok
                          THEN c.storeDir \notin DOMAIN fs'
                          ELSE fs' = fs ]_vars

\* a successful Delete that removed the tracked directory
C3_Witness ==
    /\ lastCall.op = "Delete"
    /\ lastCall.runtime = "removed"
    /\ Len(lastCall.removed) = 1
    /\ lastCall.removed[1].ok
    /\ lastCall.removed[1].dir \notin DOMAIN fs

\* C4: no directory TempDir created is handed to os.RemoveAll twice, and once
\* Cleanup has been called, every directory created before that call has
\* been handed to os.RemoveAll exactly once.
C4_RemovedExactlyOnce ==
    /\ \A d \in DOMAIN rmCount : rmCount[d] <= 1
    /\ lastCall.cleanups > 0 => \A d \in DOMAIN rmCount : rmCount[d] = 1

\* C5 as stated: when a template step of Start fails, Start returns an
\* error, the directory it created no longer exists and is not tracked, and
\* no subprocess was invoked.
C5_Original ==
    (lastCall.op = "Start" /\ lastCall.err \in TemplateErrors)
        => /\ lastCall.err # nil
           /\ lastCall.mkdir \notin DOMAIN fs
           /\ c.storeDir = ""
           /\ lastCall.cmds = <<>>

\* C5 as amended: when a template step of Start fails, Start returns an
\* error, no subprocess was invoked, the directory created in that call is no
\* longer tracked and was handed to os.RemoveAll once; it no longer exists
\* unless that removal failed.
C5_TemplateFailureCleansUp ==
    (lastCall.op = "Start" /\ lastCall.err \in TemplateErrors)
        => /\ lastCall.err # nil
           /\ lastCall.cmds = <<>>
           /\ c.storeDir = ""
           /\ lastCall.mkdir # ""
           /\ lastCall.cleanups = 1
           /\ Len(lastCall.removed) = 1
           /\ lastCall.removed[1].dir = lastCall.mkdir
           /\ lastCall.removed[1].ok <=> lastCall.mkdir \notin DOMAIN fs

\* a Start whose template failed to render and whose directory is gone
C5_Witness ==
    /\ lastCall.op = "Start"
    /\ lastCall.err \in ExecuteTemplate \ {nil}
    /\ lastCall.mkdir # ""
    /\ lastCall.mkdir \notin DOMAIN fs

\* C6: when the launch fails, Start returns the launch's error and output,
\* calls no Cleanup, and the scratch directory is still tracked and still
\* holds the rendered configuration file.
C6_LaunchFailureKeepsScratch ==
    (lastCall.op = "Start" /\ Len(lastCall.cmds) = 1 /\ lastCall.cmds[1].err # nil)
        => /\ lastCall.err = lastCall.cmds[1].err
           /\ lastCall.out = lastCall.cmds[1].out
           /\ lastCall.cleanups = 0
           /\ lastCall.removed = <<>>
           /\ lastCall.mkdir # ""
           /\ c.storeDir = lastCall.mkdir
           /\ c.storeDir \in DOMAIN fs
           /\ \E u \in ClickhouseURLs : fs[c.storeDir] = <<ConfigFile(u, c.address, TRUE)>>

\* a Start whose launch failed
C6_Witness ==
    /\ lastCall.op = "Start"
    /\ Len(lastCall.cmds) = 1
    /\ lastCall.cmds[1].argv[2] = "run"
    /\ lastCall.cmds[1].err # nil

\* C7: after Stop(true) on an instance that tracked a container, Container()
\* is empty only if the stop and the chained rm both succeeded; when the stop
\* failed, Stop returned the stop's error and output, invoked no rm, called no
\* Cleanup, and Container() is still the fixed name.
C7_StopThenDelete ==
    (lastCall.op = "Stop" /\ lastCall.arg /\ Len(lastCall.cmds) >= 1)
        => /\ lastCall.cmds[1].argv[2] = "stop"
           /\ Container = ""
                => /\ Len(lastCall.cmds) = 2
                   /\ lastCall.cmds[1].err = nil
                   /\ lastCall.cmds[2].argv[2] = "rm"
                   /\ lastCall.cmds[2].err = nil
           /\ lastCall.cmds[1].err # nil
                => /\ lastCall.err = lastCall.cmds[1].err
                   /\ lastCall.out = lastCall.cmds[1].out
                   /\ Len(lastCall.cmds) = 1
                   /\ lastCall.cleanups = 0
                   /\ lastCall.removed = <<>>
                   /\ Container = CchContainerName

\* a Stop(true) whose stop failed
C7_Witness ==
    /\ lastCall.op = "Stop"
    /\ lastCall.arg
    /\ Len(lastCall.cmds) = 1
    /\ lastCall.cmds[1].err # nil

\* C8: the tracked container name is empty exactly when no launch has
\* succeeded since construction or since the last successful rm.
C8_ContainerIffCreated ==
    (Container = "") <=> (created # "launched")

\* C9: when no container has ever been created for the instance, Stop returns
\* (nil, "") and invokes no subprocess.
C9_StopNoopUntilCreated ==
    [][ (created = "never" /\ lastCall'.op = "Stop")
            => /\ lastCall'.err = nil
               /\ lastCall'.out = ""
               /\ lastCall'.cmds = <<>> ]_vars

\* C10: Start with an empty version returns an error, allocates no port,
\* creates no directory, invokes no subprocess, calls no Cleanup, and leaves the
\* tracked address, container name, scratch directory and the scratch area
\* as they were.
C10_EmptyVersionTouchesNothing ==
    [][ (Len(c.Version) = 0 /\ lastCall'.op = "Start")
            => /\ lastCall'.err # nil
               /\ lastCall'.ports = <<>>
               /\ lastCall'.mkdir = ""
               /\ lastCall'.cmds = <<>>
               /\ lastCall'.cleanups = 0
               /\ lastCall'.removed = <<>>
               /\ c'.address = c.address
               /\ c'.container = c.container
               /\ c'.storeDir = c.storeDir
               /\ fs' = fs ]_vars

\* a Start that failed validation on an instance holding a container, an
\* address and a scratch directory
C10_Witness ==
    /\ lastCall.op = "Start"
    /\ lastCall.err = "version not set"
    /\ c.address # ""
    /\ c.container # ""
    /\ c.storeDir # ""

\* C11: when the rm of a Delete fails, the tracked container name is left as
\* it was (so a Delete on it invokes rm again), Cleanup is still called and
\* leaves no scratch directory tracked, and Delete returns the rm's error and
\* output.
C11_FailedRmKeepsContainer ==
    [][ lastCall'.op = "Delete"
            => /\ c.container # ""
                    => /\ Len(lastCall'.cmds) = 1
                       /\ lastCall'.cmds[1].argv = <<c.Docker, "rm", c.container>>
               /\ (Len(lastCall'.cmds) = 1 /\ lastCall'.cmds[1].err # nil)
                    => /\ c'.container = c.container
                       /\ c'.container # ""
                       /\ lastCall'.cleanups = 1
                       /\ c'.storeDir = ""
                       /\ lastCall'.err = lastCall'.cmds[1].err
                       /\ lastCall'.out = lastCall'.cmds[1].out ]_vars

\* a Delete whose rm failed and whose Cleanup removed the tracked directory
C11_Witness ==
    /\ lastCall.op = "Delete"
    /\ Len(lastCall.cmds) = 1
    /\ lastCall.cmds[1].err # nil
    /\ Len(lastCall.removed) = 1
    /\ Container = CchContainerName

\* C12: in a Start that reaches the launch, both port allocations came before
\* it, and the address of the second one is the address in the rendered
\* configuration file, the host side of the launch's port mapping, and what
\* Address() returns afterwards.
C12_OneAddressEverywhere ==
    (lastCall.op = "Start" /\ Len(lastCall.cmds) >= 1)
        => /\ Len(lastCall.ports) = 2
           /\ Address = lastCall.ports[2]
           /\ Address # ""
           /\ c.storeDir \in DOMAIN fs
           /\ Len(fs[c.storeDir]) = 1
           /\ fs[c.storeDir][1].rendered
           /\ fs[c.storeDir][1].CCH_ADDR = Address
           /\ lastCall.cmds[1].argv[6] = "-p"
           /\ lastCall.cmds[1].argv[7] = Address \o ":2003"

\* a launch after two allocations that returned different addresses
C12_Witness ==
    /\ lastCall.op = "Start"
    /\ Len(lastCall.cmds) = 1
    /\ Len(lastCall.ports) = 2
    /\ lastCall.ports[1] # lastCall.ports[2]
    /\ lastCall.ports[1] # ""

\* C13: Cleanup hands a tracked directory to os.RemoveAll once and clears
\* the tracked path, and does nothing when none is tracked; a Cleanup that
\* follows a Cleanup removes nothing and changes nothing; whether or not the
\* removal failed, no error reaches the caller.
C13_CleanupIdempotent ==
    [][ lastCall'.op = "Cleanup"
            => /\ lastCall'.err = nil
               /\ lastCall'.out = ""
               /\ c'.storeDir = ""
               /\ IF c.storeDir # ""
                  THEN /\ Len(lastCall'.removed) = 1
                       /\ lastCall'.removed[1].dir = c.storeDir
                       /\ rmCount'[c.storeDir] = rmCount[c.storeDir] + 1
                       /\ lastCall'.removed[1].ok => c.storeDir \notin DOMAIN fs'
                  ELSE /\ lastCall'.removed = <<>>
                       /\ c' = c /\ fs' = fs /\ rmCount' = rmCount
               /\ lastCall.op = "Cleanup"
                    => /\ lastCall'.removed = <<>>
                       /\ c' = c /\ fs' = fs /\ rmCount' = rmCount ]_vars

\* a Cleanup whose removal failed
C13_Witness ==
    /\ lastCall.op = "Cleanup"
    /\ lastCall.err = nil
    /\ Len(lastCall.removed) = 1
    /\ ~lastCall.removed[1].ok
    /\ lastCall.removed[1].dir \in DOMAIN fs
    /\ c.storeDir = ""

\* the steps a Start performed, read from its record: 1 the first
\* allocation, 2 the scratch directory, 3 the second allocation, 5 the launch
\* (4, the rendering, shows in the scratch directory)
StepsDone(log) ==
    (IF Len(log.ports) >= 1 THEN {1} ELSE {})
    \cup (IF log.mkdir # "" THEN {2} ELSE {})
    \cup (IF Len(log.ports) >= 2 THEN {3} ELSE {})
    \cup (IF Len(log.cmds) >= 1 THEN {5} ELSE {})

\* C14: the steps a Start performed are an initial part of the order
\* (validate, allocate, create the directory, allocate again, render, launch);
\* a failed step is the last one performed; a failure after the directory was
\* created and before the launch calls Cleanup once, on that directory, and no
\* other return of Start calls it; the launch is invoked at most once and only
\* after every earlier step succeeded.
C14_StartStepsInOrder ==
    lastCall.op = "Start"
        => LET log == lastCall
               done == StepsDone(log)
           IN  /\ Len(log.ports) <= 2 /\ Len(log.cmds) <= 1
               /\ 5 \in done => 3 \in done
               /\ 3 \in done => 2 \in done
               /\ 2 \in done => 1 \in done
               /\ log.err = "version not set" <=> done = {}
               /\ (1 \in done /\ log.ports[1] = "") => done = {1}
               /\ (3 \in done /\ log.ports[2] = "") => 5 \notin done
               /\ log.err \in TemplateErrors => (3 \in done /\ 5 \notin done)
               /\ 5 \in done
                    => /\ log.ports[1] # "" /\ log.ports[2] # ""
                       /\ fs[log.mkdir] = <<ConfigFile(fs[log.mkdir][1].CLICKHOUSE_URL,
                                                       log.ports[2], TRUE)>>
                       /\ log.cmds[1].argv[2] = "run"
                       /\ log.err = log.cmds[1].err
               /\ (2 \in done /\ 5 \notin done)
                    => /\ log.err # nil
                       /\ log.cleanups = 1
                       /\ Len(log.removed) = 1
                       /\ log.removed[1].dir = log.mkdir
               /\ (2 \notin done \/ 5 \in done)
                    => log.cleanups = 0 /\ log.removed = <<>>

\* a Start whose second allocation failed and that cleaned up before returning
C14_Witness ==
    /\ lastCall.op = "Start"
    /\ Len(lastCall.ports) = 2
    /\ lastCall.ports[2] = ""
    /\ lastCall.cleanups = 1
    /\ lastCall.cmds = <<>>

\* C15: Cleanup leaves the tracked container name, the tracked address and
\* the configured fields as they were, and Address() and Container() return
\* the tracked value and change nothing.
C15_CleanupAndAccessorsFrame ==
    [][ /\ lastCall'.op = "Cleanup"
            => [c' EXCEPT !.storeDir = c.storeDir] = c
        /\ lastCall'.op \in {"Address", "Container"}
            => /\ c' = c /\ fs' = fs /\ rmCount' = rmCount
               /\ created' = created /\ lastEvent' = lastEvent
               /\ lastCall'.out = IF lastCall'.op = "Address"
                                  THEN c.address ELSE c.container ]_vars

\* a Cleanup that removed a directory of an instance that tracks a container
C15_Witness ==
    /\ lastCall.op = "Cleanup"
    /\ Len(lastCall.removed) = 1
    /\ c.container # ""
    /\ c.address # ""

\* C16: the launch command carries "-e", "TZ=<tz>" exactly when the timezone
\* is set, its last argument is <image>:<version>, and the runtime and the
\* image are the caller's values when set and the defaults when not.
C16_LaunchCommand ==
    [][ (lastCall'.op = "Start" /\ Len(lastCall'.cmds) >= 1)
            => LET argv == lastCall'.cmds[1].argv
                   docker == IF c.Docker = "" THEN "docker" ELSE c.Docker
                   image == IF c.DockerImage = "" THEN "lomik/carbon-clickhouse"
                                                  ELSE c.DockerImage
               IN  /\ argv[1] = docker
                   /\ c'.Docker = docker
                   /\ c'.DockerImage = image
                   /\ c'.TZ = c.TZ /\ c'.Version = c.Version
                   /\ argv[Len(argv)] = image \o ":" \o c.Version
                   /\ c.TZ # "" <=> \E i \in 1..(Len(argv) - 1) : argv[i] = "-e"
                   /\ c.TZ # "" => /\ argv[Len(argv) - 2] = "-e"
                                   /\ argv[Len(argv) - 1] = "TZ=" \o c.TZ
                   /\ Len(argv) = IF c.TZ # "" THEN 14 ELSE 12 ]_vars

\* a launch with the caller's runtime, image and timezone
C16_Witness ==
    /\ lastCall.op = "Start"
    /\ Len(lastCall.cmds) = 1
    /\ c.TZ # ""
    /\ lastCall.cmds[1].argv[1] = "podman"

\* C17, for the directories no removal was attempted on: every scratch
\* directory that exists and was never handed to os.RemoveAll is the one
\* the instance tracks.
C17_ExistingDirIsTracked ==
    \A d \in DOMAIN fs : rmCount[d] = 0 => d = c.storeDir

\* C18: Stop(false) leaves the struct and the scratch area as they were and
\* calls no Cleanup, whatever the stop returned; on an instance that tracks a
\* container it invokes the runtime's stop, every time it is called.
C18_StopFalseFrame ==
    [][ (lastCall'.op = "Stop" /\ ~lastCall'.arg)
            => /\ c' = c /\ fs' = fs /\ rmCount' = rmCount
               /\ lastCall'.cleanups = 0
               /\ lastCall'.removed = <<>>
               /\ c.container # ""
                    => /\ Len(lastCall'.cmds) = 1
                       /\ lastCall'.cmds[1].argv = <<c.Docker, "stop", c.container>>
                       /\ lastCall'.err = lastCall'.cmds[1].err
                       /\ lastCall'.out = lastCall'.cmds[1].out ]_vars

\* a Stop(false) whose stop succeeded, on an instance that still tracks the
\* container and its scratch directory
C18_Witness ==
    /\ lastCall.op = "Stop"
    /\ ~lastCall.arg
    /\ Len(lastCall.cmds) = 1
    /\ lastCall.cmds[1].err = nil
    /\ c.container # ""
    /\ c.storeDir # ""

\* C19: every request executeTemplate served got exactly one write to its
\* response; when reading the base or the page template failed, that write is
\* the 500 error, and the template was not expanded; when the expansion
\* failed, that write is the 500 error and no result was written.
C19_OneResponsePerRequest ==
    \A i \in 1..Len(served) :
        LET r == served[i] IN
        r.path = "/graph"
            => /\ Len(r.writes) = 1
               /\ r.readErr # nil
                    => /\ ~r.expanded
                       /\ r.status = 500
                       /\ r.writes = <<"http.Error">>
                       /\ r.body = <<r.readErr>>
               /\ r.expandErr # nil
                    => /\ r.status = 500
                       /\ r.writes = <<"http.Error">>
                       /\ r.body = <<r.expandErr>>
====
